---- MODULE Spec2Model ----
(***************************************************************************)
(* Model of the Fordefi / Hypernative webhook server (src/app.ts) and of   *)
(* the earlier Fordefi-only server (src/unnamed/part_000).                 *)
(*                                                                         *)
(* A request is a record of what the handlers read from it: the endpoint,  *)
(* the two headers and the body.  Values are modelled by the categories    *)
(* the JavaScript code distinguishes (undefined, falsy, string, ...).      *)
(* A signature is modelled by who produced it and over which bytes, so     *)
(* that verifying with another key or over other bytes gives false.        *)
(***************************************************************************)
EXTENDS Integers, Sequences, FiniteSets, TLC

\* ------------------------------------------------------------------------
\* Bounds
\* ------------------------------------------------------------------------
NumRequests == 2

Requests == 1..NumRequests

\* ------------------------------------------------------------------------
\* Values
\* ------------------------------------------------------------------------
Programs == {"app.ts", "part_000"}

\* who produced a signature (the holder of the private key)
Signers == {"fordefi", "hypernative", "attacker"}

\* the bytes a signature was produced over
Contents == {"rawBody", "data", "other"}

\* A value found where a signature is expected.  kind:
\*   absent     the header or field is not there (undefined)
\*   falsy      '' for a header; '', null, 0 or false for a JSON field
\*   nonString  a truthy JSON value that is not a string (JSON field only)
\*   malformed  a string whose base64 decoding is not a DER signature
\*   der        a string that is the base64 of a DER signature
SigValue(k, s, o) == [kind |-> k, signer |-> s, over |-> o]

DerSigs == { SigValue("der", s, o) : s \in Signers, o \in Contents }

HeaderSigs ==
  { SigValue(k, "none", "none") : k \in {"absent", "falsy", "malformed"} }
    \cup DerSigs

FieldSigs ==
  { SigValue(k, "none", "none") :
      k \in {"absent", "falsy", "nonString", "malformed"} }
    \cup DerSigs

\* the fordefi-transaction-id header: undefined, '' or a transaction id
TxHeaders == {"absent", "empty", "tx123"}

\* the data field of a JSON object body:
\*   absent      no data field (undefined)
\*   emptyString the string ''
\*   jsonString  a string that is itself JSON
\*   textString  a string that is not JSON
\*   array       an array of byte values (Buffer.from accepts it)
\*   nonString   a number, boolean, null or plain object (Buffer.from throws)
DataKinds ==
  {"absent", "emptyString", "jsonString", "textString", "array", "nonString"}

Body(k, ds, d) == [kind |-> k, digitalSignature |-> ds, data |-> d]

\* the request body as express.raw leaves it in req.body:
\*   absent         undefined
\*   empty          a Buffer of length 0
\*   notJson        bytes that JSON.parse rejects
\*   jsonNull       the JSON text null
\*   jsonNonObject  a JSON number, string, boolean or array
\*   object         a JSON object, with its digitalSignature and data fields
Bodies ==
  { Body(k, SigValue("absent", "none", "none"), "absent") :
      k \in {"absent", "empty", "notJson", "jsonNull", "jsonNonObject"} }
    \cup { Body("object", ds, d) : ds \in FieldSigs, d \in DataKinds }

Endpoints == {"/", "/hypernative"}

RequestInputs ==
  [endpoint : Endpoints, txid : TxHeaders, xsig : HeaderSigs, body : Bodies]

NoRequest ==
  [endpoint |-> "none", txid |-> "absent",
   xsig |-> SigValue("absent", "none", "none"),
   body |-> Body("absent", SigValue("absent", "none", "none"), "absent")]

\* what a key source (environment variable, key file) holds at startup
KeyTexts == {"absent", "validPem", "malformedPem"}

\* what the downstream API call ends with: an HTTP status or a network error
DownstreamStatuses == {199, 200, 204, 299, 300, 401, 503}

DownstreamOutcomes ==
  { [kind |-> "status", status |-> s] : s \in DownstreamStatuses }
    \cup { [kind |-> "networkError", status |-> 0] }

NoOutcome == [kind |-> "none", status |-> 0]

\* ------------------------------------------------------------------------
\* JavaScript truthiness of the modelled values
\* ------------------------------------------------------------------------
\* if (signature), if (digitalSignature), if (bodyData.digitalSignature)
Truthy(sig) == sig.kind \in {"nonString", "malformed", "der"}

\* if (transactionId)
TruthyTx(txid) == txid = "tx123"

\* !rawBody || rawBody.length === 0
EmptyBody(body) == body.kind \in {"absent", "empty"}

\* JSON.parse(rawBody.toString()) returns a value (does not throw)
ParsesAsJson(body) == body.kind \in {"jsonNull", "jsonNonObject", "object"}

\* ------------------------------------------------------------------------
\* State
\* ------------------------------------------------------------------------
VARIABLES
  program,                 \* which of the two servers this process runs
  proc,                    \* "starting", "listening" or "exited"
  FORDEFI_API_USER_TOKEN,  \* "unset" or "set"
  FORDEFI_PUBLIC_KEY,      \* "unset", "validPem" or "malformedPem"
  HYPERNATIVE_PUBLIC_KEY,  \* "unset", "validPem" or "malformedPem"
  req,                     \* req[r]: the request as received
  pc,                      \* pc[r]: where the handler of r stands
  source,                  \* source[r]: the path the router chose
  log,                     \* log[r]: what the handler did, in order
  vkey,                    \* vkey[r]: key the verification of r used
  vmsg,                    \* vmsg[r]: bytes the verification of r was over
  vres,                    \* vres[r]: "none", "true", "false" or "threw"
  calls,                   \* calls[r]: downstream POSTs issued for r
  outcome,                 \* outcome[r]: how the downstream call ended
  signingTriggered,        \* signingTriggered[r]: "none", "true", "false"
  resp,                    \* resp[r]: the responses sent for r, in order
  codec                    \* a DER signature and what derToP1363 made of it

vars ==
  <<program, proc, FORDEFI_API_USER_TOKEN, FORDEFI_PUBLIC_KEY,
    HYPERNATIVE_PUBLIC_KEY, req, pc, source, log, vkey, vmsg, vres, calls,
    outcome, signingTriggered, resp, codec>>

\* what no request handler writes
keyVars ==
  <<program, proc, FORDEFI_API_USER_TOKEN, FORDEFI_PUBLIC_KEY,
    HYPERNATIVE_PUBLIC_KEY, codec>>

InitServer ==
  /\ program \in Programs
  /\ proc = "starting"
  /\ FORDEFI_API_USER_TOKEN = "unset"
  /\ FORDEFI_PUBLIC_KEY = "unset"
  /\ HYPERNATIVE_PUBLIC_KEY = "unset"
  /\ req = [r \in Requests |-> NoRequest]
  /\ pc = [r \in Requests |-> "idle"]
  /\ source = [r \in Requests |-> "none"]
  /\ log = [r \in Requests |-> <<>>]
  /\ vkey = [r \in Requests |-> "none"]
  /\ vmsg = [r \in Requests |-> "none"]
  /\ vres = [r \in Requests |-> "none"]
  /\ calls = [r \in Requests |-> 0]
  /\ outcome = [r \in Requests |-> NoOutcome]
  /\ signingTriggered = [r \in Requests |-> "none"]
  /\ resp = [r \in Requests |-> <<>>]

\* no signature is being converted outside a request
NoCodec ==
  [r |-> <<>>, s |-> <<>>, shape |-> "none", der |-> <<>>,
   out |-> [ok |-> FALSE, bytes |-> <<>>], applied |-> FALSE]

Init == InitServer /\ codec = NoCodec

\* ------------------------------------------------------------------------
\* Responses
\* ------------------------------------------------------------------------
\* res.status(code).json({ error: error })
ErrorResponse(code, error) ==
  [code |-> code, error |-> error, status |-> "none", message |-> "none",
   transactionId |-> "absent", signingTriggered |-> "absent"]

\* res.status(200).json({ status, message, transactionId, signingTriggered })
OkResponse(status, message, txid, triggered) ==
  [code |-> 200, error |-> "none", status |-> status, message |-> message,
   transactionId |-> txid, signingTriggered |-> triggered]

\* InternalServerError of a catch block that answers with error.message
InternalServerErrorLeaky ==
  ErrorResponse(500, "Unexpected token in JSON at position 0")

\* the catch block of each handler
InternalServerError == ErrorResponse(500, "Internal server error")

\* ------------------------------------------------------------------------
\* Startup: the top-level code that runs before app.listen
\* ------------------------------------------------------------------------
\* process.env.X_PUBLIC_KEY if set, else the key file; "absent" when the
\* file cannot be read (readFileSync throws and the process exits)
LoadKey(env, file) == IF env # "absent" THEN env ELSE file

StartupApp ==
  /\ program = "app.ts"
  /\ proc = "starting"
  /\ \E token \in {"absent", "present"}, fEnv \in KeyTexts, fFile \in KeyTexts,
        hEnv \in KeyTexts, hFile \in KeyTexts :
       IF token = "absent"
       THEN /\ proc' = "exited"
            /\ UNCHANGED <<FORDEFI_API_USER_TOKEN, FORDEFI_PUBLIC_KEY,
                           HYPERNATIVE_PUBLIC_KEY>>
       ELSE /\ FORDEFI_API_USER_TOKEN' = "set"
            /\ IF LoadKey(fEnv, fFile) = "absent"
               THEN /\ proc' = "exited"
                    /\ UNCHANGED <<FORDEFI_PUBLIC_KEY, HYPERNATIVE_PUBLIC_KEY>>
               ELSE /\ FORDEFI_PUBLIC_KEY' = LoadKey(fEnv, fFile)
                    /\ IF LoadKey(hEnv, hFile) = "absent"
                       THEN /\ proc' = "exited"
                            /\ UNCHANGED HYPERNATIVE_PUBLIC_KEY
                       ELSE /\ HYPERNATIVE_PUBLIC_KEY' = LoadKey(hEnv, hFile)
                            /\ proc' = "listening"
  /\ UNCHANGED <<program, req, pc, source, log, vkey, vmsg, vres, calls,
                 outcome, signingTriggered, resp, codec>>

StartupSimple ==
  /\ program = "part_000"
  /\ proc = "starting"
  /\ \E file \in KeyTexts :
       IF file = "absent"
       THEN /\ proc' = "exited"
            /\ UNCHANGED FORDEFI_PUBLIC_KEY
       ELSE /\ FORDEFI_PUBLIC_KEY' = file
            /\ proc' = "listening"
  /\ UNCHANGED <<program, FORDEFI_API_USER_TOKEN, HYPERNATIVE_PUBLIC_KEY,
                 req, pc, source, log, vkey, vmsg, vres, calls, outcome,
                 signingTriggered, resp, codec>>

\* ------------------------------------------------------------------------
\* Helpers for the handler steps
\* ------------------------------------------------------------------------
Logged(r, events) == log' = [log EXCEPT ![r] = @ \o events]

\* res.status(..).json(..) followed by return: the handler is finished
Respond(r, response) ==
  /\ resp' = [resp EXCEPT ![r] = Append(@, response)]
  /\ pc' = [pc EXCEPT ![r] = "done"]

\* a request out of inputs arrives; the framework hands it to the handler
\* of its endpoint
ArriveFrom(r, inputs) ==
  /\ proc = "listening"
  /\ pc[r] = "idle"
  /\ \E i \in inputs :
       /\ program = "part_000" => i.endpoint = "/"
       /\ req' = [req EXCEPT ![r] = i]
  /\ pc' = [pc EXCEPT ![r] = "handler"]
  /\ UNCHANGED <<keyVars, source, log, vkey, vmsg, vres, calls, outcome,
                 signingTriggered, resp>>

Arrive(r) == ArriveFrom(r, RequestInputs)

\* one request handled on its own
Receive(r) ==
  /\ \A o \in Requests \ {r} : pc[o] = "idle"
  /\ Arrive(r)

\* ------------------------------------------------------------------------
\* Router of POST / (app.ts)
\* ------------------------------------------------------------------------
\* transactionId && rawBody && rawBody.length > 0: the body is probed
Probed(i) == TruthyTx(i.txid) /\ ~EmptyBody(i.body)

\* the probe finds a truthy bodyData.digitalSignature; JSON.parse throwing
\* and null.digitalSignature throwing are both swallowed by the inner catch
ProbeHit(i) ==
  /\ Probed(i)
  /\ i.body.kind = "object"
  /\ Truthy(i.body.digitalSignature)

\* Route with the x-signature header tested before the probe
RouteHeaderFirst(i) ==
  IF Truthy(i.xsig) THEN "SourceA"
  ELSE IF ProbeHit(i) THEN "SourceB"
  ELSE "MissingSignature"

\* the path POST / takes for request i
Route(i) ==
  IF ProbeHit(i) THEN "SourceB"
  ELSE IF ~Truthy(i.xsig) THEN "MissingSignature"
  ELSE "SourceA"

\* ------------------------------------------------------------------------
\* Signature verification
\* ------------------------------------------------------------------------
\* p256.Signature.fromDER(derSig).toCompactRawBytes(): throws unless the
\* bytes are a DER signature
derToP1363(sig) == IF sig.kind = "der" THEN "compact" ELSE "throws"

\* crypto.subtle.verify: true exactly when the signature was produced with
\* the private key of keyOwner over the bytes msg
SubtleVerify(keyOwner, sig, msg) ==
  /\ sig.signer = keyOwner
  /\ \/ sig.over = "rawBody" /\ msg = "rawBody"
     \/ sig.over = "data" /\ msg \in {"dataString", "dataArrayBytes"}

\* the try block of verifySignature / verifyHypernativeSignature:
\* "true" or "false" when it returns isValid, "throws" when a step throws.
\* fault: the crypto primitive itself fails
VerifyTry(keyText, keyOwner, sig, msg, fault) ==
  IF keyText # "validPem" THEN "throws"            \* importKey rejects
  ELSE IF sig.kind = "nonString" THEN "throws"     \* Buffer.from(5, 'base64')
  ELSE IF derToP1363(sig) = "throws" THEN "throws"
  ELSE IF fault THEN "throws"
  ELSE IF SubtleVerify(keyOwner, sig, msg) THEN "true" ELSE "false"

\* VerifyCatch without the catch block: the exception leaves the function
VerifyNoCatch(tried) == tried

\* try { ... return isValid } catch (error) { return false }
VerifyCatch(tried) == IF tried = "throws" THEN "false" ELSE tried

verifySignatureResult(sig, msg, fault) ==
  VerifyCatch(VerifyTry(FORDEFI_PUBLIC_KEY, "fordefi", sig, msg, fault))

verifyHypernativeSignatureResult(sig, msg, fault) ==
  VerifyCatch(VerifyTry(HYPERNATIVE_PUBLIC_KEY, "hypernative", sig, msg, fault))

\* ------------------------------------------------------------------------
\* POST / of app.ts, up to the call of verifySignature
\* ------------------------------------------------------------------------
\* verifySignature(signature, rawBody)
FordefiMessage == "rawBody"

\* FordefiEntry without the return after each res.status(..).json(..): the
\* handler goes on to the next check after answering
FordefiEntryNoReturn(r, probe) ==
  LET first == IF ~Truthy(req[r].xsig)
               THEN <<ErrorResponse(401, "Missing signature")>>
               ELSE <<>>
      answered == [i \in 1..Len(first) |-> "respond"]
  IN IF EmptyBody(req[r].body)
     THEN /\ resp' = [resp EXCEPT
                        ![r] = @ \o first
                                 \o <<ErrorResponse(400, "Empty request body")>>]
          /\ pc' = [pc EXCEPT ![r] = "done"]
          /\ Logged(r, probe \o answered \o <<"respond">>)
          /\ UNCHANGED <<vkey, vmsg>>
     ELSE /\ resp' = [resp EXCEPT ![r] = @ \o first]
          /\ vkey' = [vkey EXCEPT ![r] = "fordefi"]
          /\ vmsg' = [vmsg EXCEPT ![r] = FordefiMessage]
          /\ pc' = [pc EXCEPT ![r] = "verifySignature"]
          /\ Logged(r, probe \o answered \o <<"verifyCall">>)

\* the part shared with part_000: signature header, body, verifySignature
FordefiEntry(r, probe) ==
  IF ~Truthy(req[r].xsig)
  THEN /\ Respond(r, ErrorResponse(401, "Missing signature"))
       /\ Logged(r, probe \o <<"respond">>)
       /\ UNCHANGED <<vkey, vmsg>>
  ELSE IF EmptyBody(req[r].body)
  THEN /\ Respond(r, ErrorResponse(400, "Empty request body"))
       /\ Logged(r, probe \o <<"respond">>)
       /\ UNCHANGED <<vkey, vmsg>>
  ELSE /\ vkey' = [vkey EXCEPT ![r] = "fordefi"]
       /\ vmsg' = [vmsg EXCEPT ![r] = FordefiMessage]
       /\ pc' = [pc EXCEPT ![r] = "verifySignature"]
       /\ Logged(r, probe \o <<"verifyCall">>)
       /\ UNCHANGED resp

PostRoot(r) ==
  /\ program = "app.ts"
  /\ pc[r] = "handler"
  /\ req[r].endpoint = "/"
  /\ source' = [source EXCEPT ![r] = Route(req[r])]
  /\ LET probe == IF Probed(req[r]) THEN <<"probeParse">> ELSE <<>>
     IN IF Route(req[r]) = "SourceB"
        THEN /\ pc' = [pc EXCEPT ![r] = "handleHypernativeWebhook"]
             /\ Logged(r, probe)
             /\ UNCHANGED <<vkey, vmsg, resp>>
        ELSE FordefiEntry(r, probe)
  /\ UNCHANGED <<keyVars, req, vres, calls, outcome, signingTriggered>>

\* app.post('/hypernative'): calls handleHypernativeWebhook
PostHypernative(r) ==
  /\ program = "app.ts"
  /\ pc[r] = "handler"
  /\ req[r].endpoint = "/hypernative"
  /\ source' = [source EXCEPT ![r] = "SourceB"]
  /\ pc' = [pc EXCEPT ![r] = "handleHypernativeWebhook"]
  /\ UNCHANGED <<keyVars, req, log, vkey, vmsg, vres, calls, outcome,
                 signingTriggered, resp>>

\* app.post('/') of part_000
SimplePostRoot(r) ==
  /\ program = "part_000"
  /\ pc[r] = "handler"
  /\ source' =
       [source EXCEPT ![r] =
          IF Truthy(req[r].xsig) THEN "SourceA" ELSE "MissingSignature"]
  /\ FordefiEntry(r, <<>>)
  /\ UNCHANGED <<keyVars, req, vres, calls, outcome, signingTriggered>>

\* ------------------------------------------------------------------------
\* handleHypernativeWebhook, up to the call of verifyHypernativeSignature
\* ------------------------------------------------------------------------
\* how the synchronous first part of handleHypernativeWebhook ends:
\*   emptyBody         the 400 return
\*   throws            JSON.parse, null.digitalSignature or Buffer.from throws
\*   missingSignature  the 401 return
\*   verify            verifyHypernativeSignature is called
HypernativeEntry(body) ==
  IF EmptyBody(body) THEN "emptyBody"
  ELSE IF body.kind \in {"notJson", "jsonNull"} THEN "throws"
  ELSE IF ~Truthy(body.digitalSignature) THEN "missingSignature"
  ELSE IF body.data \in {"absent", "nonString"} THEN "throws"
  ELSE "verify"

\* HypernativeMessage verifying the whole raw body instead of the data field
HypernativeMessageWholeBody(body) == "rawBody"

\* Buffer.from(hypernativeData.data, 'utf8')
HypernativeMessage(body) ==
  IF body.data = "array" THEN "dataArrayBytes" ELSE "dataString"

handleHypernativeWebhook(r) ==
  /\ pc[r] = "handleHypernativeWebhook"
  /\ LET body == req[r].body
         entry == HypernativeEntry(body)
         parse == IF EmptyBody(body) THEN <<>> ELSE <<"parseBody">>
     IN CASE entry = "emptyBody" ->
               /\ Respond(r, ErrorResponse(400, "Empty request body"))
               /\ Logged(r, parse \o <<"respond">>)
               /\ UNCHANGED <<vkey, vmsg>>
          [] entry = "throws" ->
               /\ Respond(r, InternalServerError)
               /\ Logged(r, parse \o <<"respond">>)
               /\ UNCHANGED <<vkey, vmsg>>
          [] entry = "missingSignature" ->
               /\ Respond(r, ErrorResponse(401, "Missing digitalSignature"))
               /\ Logged(r, parse \o <<"respond">>)
               /\ UNCHANGED <<vkey, vmsg>>
          [] entry = "verify" ->
               /\ vkey' = [vkey EXCEPT ![r] = "hypernative"]
               /\ vmsg' = [vmsg EXCEPT ![r] = HypernativeMessage(body)]
               /\ pc' = [pc EXCEPT ![r] = "verifyHypernativeSignature"]
               /\ Logged(r, parse \o <<"verifyCall">>)
               /\ UNCHANGED resp
  /\ UNCHANGED <<keyVars, req, source, vres, calls, outcome,
                 signingTriggered>>

\* ------------------------------------------------------------------------
\* The two verification functions
\* ------------------------------------------------------------------------
VerifyEvent(v) ==
  CASE v = "true" -> "verifyTrue"
    [] v = "false" -> "verifyFalse"
    [] OTHER -> "verifyThrows"

verifySignature(r) ==
  /\ pc[r] = "verifySignature"
  /\ \E fault \in BOOLEAN :
       LET v == verifySignatureResult(req[r].xsig, vmsg[r], fault)
       IN /\ vres' = [vres EXCEPT ![r] = v]
          /\ Logged(r, <<VerifyEvent(v)>>)
  /\ pc' = [pc EXCEPT ![r] = "afterVerifySignature"]
  /\ UNCHANGED <<keyVars, req, source, vkey, vmsg, calls, outcome,
                 signingTriggered, resp>>

\* verifyHypernativeSignature with isValid kept in a module-level variable
\* that every request in flight reads
verifyHypernativeSignatureShared(r) ==
  /\ pc[r] = "verifyHypernativeSignature"
  /\ \E fault \in BOOLEAN :
       LET v == verifyHypernativeSignatureResult(
                  req[r].body.digitalSignature, vmsg[r], fault)
       IN /\ vres' = [o \in Requests |->
                        IF o = r \/ pc[o] \notin {"idle", "done"}
                        THEN v ELSE vres[o]]
          /\ Logged(r, <<VerifyEvent(v)>>)
  /\ pc' = [pc EXCEPT ![r] = "afterVerifyHypernativeSignature"]
  /\ UNCHANGED <<keyVars, req, source, vkey, vmsg, calls, outcome,
                 signingTriggered, resp>>

verifyHypernativeSignature(r) ==
  /\ pc[r] = "verifyHypernativeSignature"
  /\ \E fault \in BOOLEAN :
       LET v == verifyHypernativeSignatureResult(
                  req[r].body.digitalSignature, vmsg[r], fault)
       IN /\ vres' = [vres EXCEPT ![r] = v]
          /\ Logged(r, <<VerifyEvent(v)>>)
  /\ pc' = [pc EXCEPT ![r] = "afterVerifyHypernativeSignature"]
  /\ UNCHANGED <<keyVars, req, source, vkey, vmsg, calls, outcome,
                 signingTriggered, resp>>

\* ------------------------------------------------------------------------
\* After verification
\* ------------------------------------------------------------------------
\* IsValidSignature with the returned boolean ignored
IsValidSignatureIgnored(v) == v \in {"true", "false"}

\* IsValidSignature with the test inverted: if (isValidSignature) { 401 }
IsValidSignatureInverted(v) == v = "false"

\* if (!isValidSignature) { 401 }: the request goes on when this holds
IsValidSignature(v) == v = "true"

\* POST / after await verifySignature(..): 401, or parse the body and 200
FordefiAfterVerify(r, message) ==
  /\ pc[r] = "afterVerifySignature"
  /\ IF vres[r] = "throws"
     THEN /\ Respond(r, InternalServerError)
          /\ Logged(r, <<"respond">>)
     ELSE IF ~IsValidSignature(vres[r])
     THEN /\ Respond(r, ErrorResponse(401, "Invalid signature"))
          /\ Logged(r, <<"respond">>)
     ELSE IF ~ParsesAsJson(req[r].body)
     THEN /\ Respond(r, InternalServerError)
          /\ Logged(r, <<"parseBody", "respond">>)
     ELSE /\ Respond(r, OkResponse("success", message, "absent", "absent"))
          /\ Logged(r, <<"parseBody", "respond">>)
  /\ UNCHANGED <<keyVars, req, source, vkey, vmsg, vres, calls, outcome,
                 signingTriggered>>

PostRootAfterVerify(r) ==
  /\ program = "app.ts"
  /\ FordefiAfterVerify(r, "Fordefi webhook received and processed")

SimpleAfterVerify(r) ==
  /\ program = "part_000"
  /\ FordefiAfterVerify(r, "Webhook received and processed")

\* ShouldTrigger of a handler that calls the trigger without a transaction id
ShouldTriggerAlways(i) == TRUE

\* ShouldTrigger of a handler that never calls the trigger
ShouldTriggerNever(i) == FALSE

\* if (transactionId) { triggerTransactionSigning(transactionId) }
ShouldTrigger(i) == TruthyTx(i.txid)

\* if (hypernativeData.data && typeof hypernativeData.data === 'string')
\*   try { JSON.parse(hypernativeData.data) }:
\* "skipped" when the condition fails, "parsed", or "throws" a SyntaxError
NestedParseTry(body) ==
  IF body.data = "jsonString" THEN "parsed"
  ELSE IF body.data = "textString" THEN "throws"
  ELSE "skipped"

\* NestedParseCatch without the inner catch block: the SyntaxError leaves
\* the block and reaches the catch of the handler
NestedParseNoCatch(tried) == tried

\* catch (error) { console.error('Error parsing nested data:', error) }
NestedParseCatch(tried) == IF tried = "throws" THEN "swallowed" ELSE tried

NestedParseResult(body) == NestedParseCatch(NestedParseTry(body))

\* what the nested parse leaves in the log
NestedParse(body) ==
  CASE NestedParseResult(body) = "skipped" -> <<>>
    [] NestedParseResult(body) = "parsed" -> <<"parseData">>
    [] OTHER -> <<"parseData", "parseDataError">>

\* handleHypernativeWebhook after await verifyHypernativeSignature(..):
\* 401, or parse the nested data and either call the trigger or answer 200
HypernativeAfterVerify(r) ==
  /\ pc[r] = "afterVerifyHypernativeSignature"
  /\ IF vres[r] = "throws"
     THEN /\ Respond(r, InternalServerError)
          /\ Logged(r, <<"respond">>)
          /\ UNCHANGED calls
     ELSE IF ~IsValidSignature(vres[r])
     THEN /\ Respond(r, ErrorResponse(401, "Invalid signature"))
          /\ Logged(r, <<"respond">>)
          /\ UNCHANGED calls
     ELSE IF NestedParseResult(req[r].body) = "throws"
     THEN /\ Respond(r, InternalServerError)
          /\ Logged(r, <<"parseData", "respond">>)
          /\ UNCHANGED calls
     ELSE IF ShouldTrigger(req[r])
     THEN /\ calls' = [calls EXCEPT ![r] = @ + 1]
          /\ pc' = [pc EXCEPT ![r] = "triggerTransactionSigning"]
          /\ Logged(r, NestedParse(req[r].body) \o <<"trigger">>)
          /\ UNCHANGED resp
     ELSE /\ Respond(r, OkResponse("success",
                  "Hypernative webhook received and processed (no transaction ID to trigger)",
                  "absent", "false"))
          /\ Logged(r, NestedParse(req[r].body) \o <<"respond">>)
          /\ UNCHANGED calls
  /\ UNCHANGED <<keyVars, req, source, vkey, vmsg, vres, outcome,
                 signingTriggered>>

\* ------------------------------------------------------------------------
\* The downstream trigger
\* ------------------------------------------------------------------------
\* TriggerTry with the upper bound of the status range off by one
TriggerTryInclusive(o) ==
  IF o.kind = "networkError" THEN "throws"
  ELSE IF o.status >= 200 /\ o.status <= 300 THEN "true"
  ELSE "false"

\* the try block of triggerTransactionSigning, given how axios.post ended
TriggerTry(o) ==
  IF o.kind = "networkError" THEN "throws"
  ELSE IF o.status >= 200 /\ o.status < 300 THEN "true"
  ELSE "false"

\* catch (error) { return false }
TriggerCatch(tried) == IF tried = "throws" THEN "false" ELSE tried

TriggerResult(o) == TriggerCatch(TriggerTry(o))

\* RetryAfter of a client that posts again, once, after a failed call
RetryOnFailure(o, n) == TriggerTry(o) # "true" /\ n < 2

\* whether axios.post is issued again after it ended with o, n calls having
\* been made: the function has no loop and no second call on any branch
RetryAfter(o, n) == FALSE

\* axios.post settles and triggerTransactionSigning returns
triggerTransactionSigning(r) ==
  /\ pc[r] = "triggerTransactionSigning"
  /\ \E o \in DownstreamOutcomes :
       /\ outcome' = [outcome EXCEPT ![r] = o]
       /\ IF RetryAfter(o, calls[r])
          THEN /\ calls' = [calls EXCEPT ![r] = @ + 1]
               /\ Logged(r, <<"trigger">>)
               /\ UNCHANGED <<pc, signingTriggered>>
          ELSE /\ signingTriggered' =
                    [signingTriggered EXCEPT ![r] = TriggerResult(o)]
               /\ pc' = [pc EXCEPT ![r] = "respondTrigger"]
               /\ Logged(r, <<"triggerReturn">>)
               /\ UNCHANGED calls
  /\ UNCHANGED <<keyVars, req, source, vkey, vmsg, vres, resp>>

\* handleHypernativeWebhook after await triggerTransactionSigning(..)
HypernativeRespond(r) ==
  /\ pc[r] = "respondTrigger"
  /\ Respond(r,
       CASE signingTriggered[r] = "true" ->
              OkResponse("success",
                "Hypernative webhook received, processed, and signing triggered",
                req[r].txid, "true")
         [] signingTriggered[r] = "false" ->
              OkResponse("partial_success",
                "Hypernative webhook received and processed, but signing trigger failed",
                req[r].txid, "false")
         [] OTHER -> InternalServerError)
  /\ Logged(r, <<"respond">>)
  /\ UNCHANGED <<keyVars, req, source, vkey, vmsg, vres, calls, outcome,
                 signingTriggered>>

\* ------------------------------------------------------------------------
\* Specification: the server starts, then handles one request
\* ------------------------------------------------------------------------
Next ==
  \/ StartupApp
  \/ StartupSimple
  \/ \E r \in Requests : Receive(r)
  \/ \E r \in Requests : PostRoot(r)
  \/ \E r \in Requests : PostHypernative(r)
  \/ \E r \in Requests : SimplePostRoot(r)
  \/ \E r \in Requests : handleHypernativeWebhook(r)
  \/ \E r \in Requests : verifySignature(r)
  \/ \E r \in Requests : verifyHypernativeSignature(r)
  \/ \E r \in Requests : PostRootAfterVerify(r)
  \/ \E r \in Requests : SimpleAfterVerify(r)
  \/ \E r \in Requests : HypernativeAfterVerify(r)
  \/ \E r \in Requests : triggerTransactionSigning(r)
  \/ \E r \in Requests : HypernativeRespond(r)

Spec == Init /\ [][Next]_vars

\* ------------------------------------------------------------------------
\* Vocabulary of the properties
\* ------------------------------------------------------------------------
\* every b in the log of r has an a somewhere before it
Precedes(r, a, b) ==
  \A i \in DOMAIN log[r] :
    log[r][i] = b => \E j \in 1..(i - 1) : log[r][j] = a

Has(r, e) == \E i \in DOMAIN log[r] : log[r][i] = e

Responded(r) == Len(resp[r]) > 0

\* the request was answered, once, with this status code
Answered(r, code) == Len(resp[r]) = 1 /\ resp[r][1].code = code

\* the request went down the Hypernative path
OnSourceB(r) == source[r] = "SourceB"

\* ------------------------------------------------------------------------
\* C1: the downstream trigger is called only after the verification of the
\* same request returned true; a request whose verification returned false
\* is answered 401 and no downstream call is made for it.
\* ------------------------------------------------------------------------
C1_TriggerOnlyAfterVerified ==
  \A r \in Requests :
    /\ Precedes(r, "verifyTrue", "trigger")
    /\ calls[r] > 0 => vres[r] = "true"
    /\ vres[r] = "false" => calls[r] = 0 /\ ~Has(r, "trigger")
    /\ vres[r] = "false" /\ pc[r] = "done" => Answered(r, 401)

\* a verified request routed from POST / has called the trigger
C1_Witness ==
  \E r \in Requests :
    /\ req[r].endpoint = "/"
    /\ calls[r] = 1
    /\ vres[r] = "true"
    /\ pc[r] = "triggerTransactionSigning"

\* ------------------------------------------------------------------------
\* C2: within a request, no JSON parse of the body (router probe, body parse
\* of either handler, parse of the nested data) happens before verification
\* returned true, and the trigger call comes after the parse of the body.
\* ------------------------------------------------------------------------
C2_VerifyThenParseThenTrigger ==
  \A r \in Requests :
    /\ Precedes(r, "verifyTrue", "probeParse")
    /\ Precedes(r, "verifyTrue", "parseBody")
    /\ Precedes(r, "verifyTrue", "parseData")
    /\ Precedes(r, "parseBody", "trigger")

\* ------------------------------------------------------------------------
\* C3: on POST / the chosen source is the three-rule reference over
\* (transaction header, body is JSON, JSON has digitalSignature, x-signature).
\* ------------------------------------------------------------------------
\* the reference, with "present" read as "not undefined"
ReferenceRoutePresent(i) ==
  IF /\ i.txid # "absent"
     /\ ParsesAsJson(i.body)
     /\ i.body.kind = "object"
     /\ i.body.digitalSignature.kind # "absent"
  THEN "SourceB"
  ELSE IF i.xsig.kind # "absent" THEN "SourceA"
  ELSE "MissingSignature"

\* the reference, with "present" read as "has a truthy value"
ReferenceRouteTruthy(i) ==
  IF /\ i.txid \notin {"absent", "empty"}
     /\ ParsesAsJson(i.body)
     /\ i.body.kind = "object"
     /\ i.body.digitalSignature.kind \notin {"absent", "falsy"}
  THEN "SourceB"
  ELSE IF i.xsig.kind \notin {"absent", "falsy"} THEN "SourceA"
  ELSE "MissingSignature"

Routed(r) ==
  /\ program = "app.ts"
  /\ req[r].endpoint = "/"
  /\ pc[r] \notin {"idle", "handler"}

\* C3 as stated: a header or field counts as soon as it is there
C3_RouteAsStated ==
  \A r \in Requests :
    Routed(r) => source[r] = ReferenceRoutePresent(req[r])

\* C3 amended: a header or field counts when its value is truthy
\* (non-empty); rule 3 ends the request with 401 Missing signature.
C3_RouteTruthy ==
  \A r \in Requests :
    Routed(r) =>
      /\ source[r] = ReferenceRouteTruthy(req[r])
      /\ source[r] = "MissingSignature" =>
           resp[r] = <<ErrorResponse(401, "Missing signature")>>

\* a request carrying both markers was routed to SourceB
C3_Witness ==
  \E r \in Requests :
    /\ Routed(r)
    /\ req[r].xsig.kind = "der"
    /\ req[r].body.digitalSignature.kind = "der"
    /\ source[r] = "SourceB"

C5_EmptyBodyIs400 ==
  \A r \in Requests :
    EmptyBody(req[r].body) /\ Responded(r) => Answered(r, 400)

\* ------------------------------------------------------------------------
\* C6: a non-empty request that lacks its signature marker or signed field
\* is answered 401, never 500: no x-signature header on the SourceA path;
\* no digitalSignature field or no data field in the JSON object on the
\* SourceB path.
\* ------------------------------------------------------------------------
LacksMarker(r) ==
  \/ /\ source[r] \in {"SourceA", "MissingSignature"}
     /\ req[r].xsig.kind = "absent"
  \/ /\ OnSourceB(r)
     /\ req[r].body.kind = "object"
     /\ \/ req[r].body.digitalSignature.kind = "absent"
        \/ req[r].body.data = "absent"

C6_MissingMarkerIs401 ==
  \A r \in Requests :
    ~EmptyBody(req[r].body) /\ LacksMarker(r) /\ Responded(r) =>
      Answered(r, 401)

\* ------------------------------------------------------------------------
\* C7: the two verification functions never let an exception out: a key that
\* does not import, a signature that does not decode and a failing primitive
\* all give the result false, and the request is answered 401, not 500.
\* ------------------------------------------------------------------------
C7_VerifyNeverThrows ==
  \A r \in Requests :
    /\ vres[r] \in {"none", "true", "false"}
    /\ ~Has(r, "verifyThrows")
    /\ Has(r, "verifyCall") /\ pc[r] = "done" /\ vres[r] # "true" =>
         resp[r] = <<ErrorResponse(401, "Invalid signature")>>

\* a request whose signature is not DER, checked against a key that does
\* not import, was answered 401
C7_Witness ==
  \E r \in Requests :
    /\ OnSourceB(r)
    /\ HYPERNATIVE_PUBLIC_KEY = "malformedPem"
    /\ req[r].body.digitalSignature.kind = "malformed"
    /\ vres[r] = "false"
    /\ Answered(r, 401)

\* ------------------------------------------------------------------------
\* C8: all signature failures give the same 401 response: a missing header
\* or field, a malformed encoding and a cryptographic mismatch are answered
\* with the status and body of the mismatch response.
\* ------------------------------------------------------------------------
C8_One401Response ==
  \A r \in Requests :
    Responded(r) /\ resp[r][1].code = 401 =>
      resp[r][1] = ErrorResponse(401, "Invalid signature")

\* ------------------------------------------------------------------------
\* C9: triggerTransactionSigning returns true exactly for a downstream status
\* in 200..299 and false for any other status or a network failure; either
\* way the request ends with 200, with status success and signingTriggered
\* true, or status partial_success and signingTriggered false.
\* ------------------------------------------------------------------------
Is2xx(o) == o.kind = "status" /\ o.status \in 200..299

C9_TriggerOutcome ==
  \A r \in Requests :
    outcome[r] # NoOutcome =>
      /\ signingTriggered[r] = (IF Is2xx(outcome[r]) THEN "true" ELSE "false")
      /\ pc[r] = "done" =>
           /\ Answered(r, 200)
           /\ resp[r][1].signingTriggered = signingTriggered[r]
           /\ resp[r][1].status =
                (IF Is2xx(outcome[r]) THEN "success" ELSE "partial_success")

\* the downstream call ended with 503 and the request with partial_success
C9_Witness ==
  \E r \in Requests :
    /\ outcome[r] = [kind |-> "status", status |-> 503]
    /\ pc[r] = "done"
    /\ resp[r][1].status = "partial_success"

\* ------------------------------------------------------------------------
\* C10: a verified request that carries a transaction reference header has
\* the trigger called before its success response.
\* ------------------------------------------------------------------------
Succeeded(r) == vres[r] = "true" /\ Responded(r) /\ resp[r][1].code = 200

\* C10 as stated: for either source, and any transaction header
C10_TriggerWhicheverSource ==
  \A r \in Requests :
    Succeeded(r) /\ req[r].txid # "absent" =>
      Has(r, "trigger") /\ Precedes(r, "trigger", "respond")

\* C10 amended: for a SourceB request with a non-empty transaction header;
\* a SourceA request is answered without any downstream call.
C10_TriggerOnSourceB ==
  \A r \in Requests :
    /\ Succeeded(r) /\ OnSourceB(r) /\ req[r].txid \notin {"absent", "empty"} =>
         Has(r, "trigger") /\ Precedes(r, "trigger", "respond")
    /\ source[r] = "SourceA" => calls[r] = 0 /\ ~Has(r, "trigger")

\* a SourceB request routed from POST / was answered 200 after its trigger
C10_Witness ==
  \E r \in Requests :
    /\ req[r].endpoint = "/"
    /\ OnSourceB(r)
    /\ Succeeded(r)
    /\ calls[r] = 1

\* ------------------------------------------------------------------------
\* C11: at most one downstream call is made for a request, whatever the
\* call ended with: a non-2xx status or a network failure is not followed
\* by a second call.
\* ------------------------------------------------------------------------
Count(r, e) == Cardinality({ i \in DOMAIN log[r] : log[r][i] = e })

C11_AtMostOneCall ==
  \A r \in Requests :
    /\ calls[r] <= 1
    /\ Count(r, "trigger") = calls[r]
    /\ outcome[r] # NoOutcome => calls[r] = 1

\* a request whose only downstream call failed on the network was answered
C11_Witness ==
  \E r \in Requests :
    /\ outcome[r].kind = "networkError"
    /\ pc[r] = "done"
    /\ calls[r] = 1

\* ------------------------------------------------------------------------
\* Progress: the steps the server takes by itself are taken; the settling
\* of axios.post is the remote end's doing, and the call is made without a
\* timeout option, so nothing in the server ends a call that never settles.
\* ------------------------------------------------------------------------
ServerStep(r) ==
  \/ PostRoot(r)
  \/ PostHypernative(r)
  \/ SimplePostRoot(r)
  \/ handleHypernativeWebhook(r)
  \/ verifySignature(r)
  \/ verifyHypernativeSignature(r)
  \/ PostRootAfterVerify(r)
  \/ SimpleAfterVerify(r)
  \/ HypernativeAfterVerify(r)
  \/ HypernativeRespond(r)

SpecLive == Init /\ [][Next]_vars /\ \A r \in Requests : WF_vars(ServerStep(r))

\* ------------------------------------------------------------------------
\* C12: every request handed to a handler is eventually answered, also when
\* the downstream call never completes (a timeout turns it into a soft
\* failure and the request ends with 200).
\* ------------------------------------------------------------------------
C12_EventuallyAnswered ==
  \A r \in Requests : (pc[r] = "handler") ~> Responded(r)

\* ------------------------------------------------------------------------
\* C13: the process serves requests only if the key text of each configured
\* source is present and is a structurally valid public key.
\* ------------------------------------------------------------------------
C13_ServesOnlyWithValidKeys ==
  proc = "listening" =>
    /\ FORDEFI_PUBLIC_KEY = "validPem"
    /\ program = "app.ts" => HYPERNATIVE_PUBLIC_KEY = "validPem"

\* ------------------------------------------------------------------------
\* C14: a request without a transaction reference header never causes a
\* downstream call, and when it is correctly signed it is answered 200.
\* ------------------------------------------------------------------------
NoDownstream(r) == calls[r] = 0 /\ ~Has(r, "trigger") /\ outcome[r] = NoOutcome

\* C14 as stated: every correctly signed request without the header gets 200
C14_NoHeaderNoCallAlways200 ==
  \A r \in Requests :
    req[r].txid = "absent" =>
      /\ NoDownstream(r)
      /\ vres[r] = "true" /\ pc[r] = "done" => Answered(r, 200)

\* C14 amended: no downstream call without the header (or with an empty
\* one); the correctly signed request is answered 200 when its body is JSON.
C14_NoHeaderNoCall ==
  \A r \in Requests :
    req[r].txid \in {"absent", "empty"} =>
      /\ NoDownstream(r)
      /\ vres[r] = "true" /\ pc[r] = "done" /\ ParsesAsJson(req[r].body) =>
           /\ Answered(r, 200)
           /\ resp[r][1].status = "success"
           /\ resp[r][1].signingTriggered \in {"absent", "false"}

\* a correctly signed Hypernative request without the header was answered
C14_Witness ==
  \E r \in Requests :
    /\ req[r].txid = "absent"
    /\ req[r].endpoint = "/hypernative"
    /\ vres[r] = "true"
    /\ Answered(r, 200)

\* ------------------------------------------------------------------------
\* C15: an exception raised while a request is handled is caught and
\* answered with 500 and the fixed body {error: 'Internal server error'};
\* every 500 response has that body.
\* ------------------------------------------------------------------------
\* the statement of r that throws, if any, has been executed
Threw(r) ==
  \/ /\ OnSourceB(r)
     /\ pc[r] \notin {"idle", "handler", "handleHypernativeWebhook"}
     /\ \/ req[r].body.kind \in {"notJson", "jsonNull"}
        \/ /\ req[r].body.kind = "object"
           /\ Truthy(req[r].body.digitalSignature)
           /\ req[r].body.data \in {"absent", "nonString"}
  \/ /\ source[r] = "SourceA"
     /\ vres[r] = "true"
     /\ pc[r] = "done"
     /\ req[r].body.kind = "notJson"

C15_ExceptionIsGeneric500 ==
  \A r \in Requests :
    /\ Threw(r) =>
         resp[r] = <<ErrorResponse(500, "Internal server error")>>
    /\ \A k \in DOMAIN resp[r] :
         resp[r][k].code = 500 =>
           resp[r][k] = ErrorResponse(500, "Internal server error")

\* a verified Fordefi request whose body is not JSON was answered 500
C15_Witness ==
  \E r \in Requests :
    /\ source[r] = "SourceA"
    /\ vres[r] = "true"
    /\ req[r].body.kind = "notJson"
    /\ Answered(r, 500)

\* ------------------------------------------------------------------------
\* derToP1363 on bytes: p256.Signature.fromDER(derSig).toCompactRawBytes()
\* A byte is a number in 0..255, a byte string a sequence of bytes, and an
\* unsigned integer its big-endian byte string without leading zero bytes.
\* ------------------------------------------------------------------------
\* width in bytes of r and of s in the compact form (P-256)
FieldBytes == 32

\* the order n of the P-256 group, big-endian
CurveOrder ==
  <<255, 255, 255, 255, 0, 0, 0, 0, 255, 255, 255, 255, 255, 255, 255, 255,
    188, 230, 250, 173, 167, 23, 158, 132, 243, 185, 202, 194, 252, 99, 37, 81>>

RECURSIVE Strip(_)
\* the unsigned integer a big-endian byte string denotes
Strip(v) == IF v = <<>> \/ v[1] # 0 THEN v ELSE Strip(Tail(v))

\* a < b for unsigned integers
Less(a, b) ==
  \/ Len(a) < Len(b)
  \/ /\ Len(a) = Len(b)
     /\ \E i \in 1..Len(a) :
          a[i] < b[i] /\ \A j \in 1..(i - 1) : a[j] = b[j]

\* v left-padded with zero bytes to n bytes
PadLeft(v, n) == [i \in 1..(n - Len(v)) |-> 0] \o v

\* data.subarray(from): the bytes after the first from
Drop(data, from) == SubSeq(data, from + 1, Len(data))

Failed == [ok |-> FALSE, val |-> <<>>, rest |-> <<>>]

\* one DER INTEGER at the head of data: tag 0x02, length, content; rejects a
\* wrong tag, an empty or truncated content, a negative value and an
\* unnecessary leading zero byte
ParseInt(data) ==
  IF Len(data) < 2 \/ data[1] # 2 THEN Failed
  ELSE LET len == data[2]
           res == SubSeq(data, 3, IF len + 2 <= Len(data) THEN len + 2
                                  ELSE Len(data))
       IN IF len = 0 \/ Len(res) # len THEN Failed
          ELSE IF res[1] >= 128 THEN Failed
          ELSE IF res[1] = 0 /\ (Len(res) = 1 \/ res[2] < 128) THEN Failed
          ELSE [ok |-> TRUE, val |-> res, rest |-> Drop(data, len + 2)]

\* 0 < v < n
InCurveOrder(v) == v # <<>> /\ Less(v, CurveOrder)

NoSignature == [ok |-> FALSE, r |-> <<>>, s |-> <<>>]

\* Signature.fromDER: a SEQUENCE (tag 0x30) whose length byte covers exactly
\* the rest, holding two INTEGERs and nothing more, each within the order
fromDER(der) ==
  IF Len(der) < 2 \/ der[1] # 48 THEN NoSignature
  ELSE IF der[2] # Len(der) - 2 THEN NoSignature
  ELSE LET first == ParseInt(Drop(der, 2))
           second == ParseInt(first.rest)
       IN IF ~first.ok THEN NoSignature
          ELSE IF ~second.ok \/ second.rest # <<>> THEN NoSignature
          ELSE IF ~InCurveOrder(Strip(first.val)) THEN NoSignature
          ELSE IF ~InCurveOrder(Strip(second.val)) THEN NoSignature
          ELSE [ok |-> TRUE, r |-> Strip(first.val), s |-> Strip(second.val)]

\* Signature.toCompactRawBytes: r and s, each padded to the field width
toCompactRawBytes(sig) ==
  PadLeft(sig.r, FieldBytes) \o PadLeft(sig.s, FieldBytes)

Rejected == [ok |-> FALSE, bytes |-> <<>>]

\* derToP1363 that returns its argument, the conversion left out
derToP1363NotConverted(der) == [ok |-> TRUE, bytes |-> der]

\* derToP1363 that cuts the two INTEGER contents out of the DER bytes and
\* joins them as they are
derToP1363Sliced(der) ==
  LET first == ParseInt(Drop(der, 2))
      second == ParseInt(first.rest)
  IN IF Len(der) < 2 \/ ~first.ok \/ ~second.ok THEN Rejected
     ELSE [ok |-> TRUE, bytes |-> first.val \o second.val]

\* derToP1363(derSig): the compact bytes, or the exception of fromDER
derToP1363Bytes(der) ==
  IF fromDER(der).ok
  THEN [ok |-> TRUE, bytes |-> toCompactRawBytes(fromDER(der))]
  ELSE Rejected

\* ------------------------------------------------------------------------
\* The DER byte strings derToP1363 is applied to
\* ------------------------------------------------------------------------
\* lengths of an INTEGER content, around the field width
ContentLengths ==
  {1, 2, FieldBytes - 1, FieldBytes, FieldBytes + 1, FieldBytes + 2}

\* a content of len bytes: b1, then b2, then fill bytes
Content(len, b1, b2, fill) ==
  [i \in 1..len |-> IF i = 1 THEN b1 ELSE IF i = 2 THEN b2 ELSE fill]

Contents256 ==
  { Content(len, b1, b2, fill) :
      len \in ContentLengths, b1 \in {0, 1, 127, 128, 255},
      b2 \in {0, 128, 255}, fill \in {171, 255} }

\* tag, length, content
Integer(content) == <<2, Len(content)>> \o content

DerShapes ==
  {"ok", "badSequenceTag", "badSequenceLength", "badIntegerTag",
   "trailingBytes", "oneInteger"}

\* the DER bytes of the given shape around the contents r and s
Der(shape, r, s) ==
  LET both == Integer(r) \o Integer(s)
  IN CASE shape = "ok" -> <<48, Len(both)>> \o both
       [] shape = "badSequenceTag" -> <<49, Len(both)>> \o both
       [] shape = "badSequenceLength" -> <<48, Len(both) + 1>> \o both
       [] shape = "badIntegerTag" ->
            <<48, Len(both)>> \o <<3, Len(r)>> \o r \o Integer(s)
       [] shape = "trailingBytes" -> <<48, Len(both) + 1>> \o both \o <<0>>
       [] shape = "oneInteger" -> <<48, Len(Integer(r))>> \o Integer(r)

CodecInputs ==
  { [r |-> r, s |-> s, shape |-> shape, der |-> Der(shape, r, s),
     out |-> Rejected, applied |-> FALSE] :
      r \in Contents256, s \in Contents256, shape \in DerShapes }

InitCodec == InitServer /\ codec \in CodecInputs

\* derToP1363(derSignatureBytes) inside the verification functions
ConvertSignature ==
  /\ ~codec.applied
  /\ codec' = [codec EXCEPT !.out = derToP1363Bytes(codec.der),
                            !.applied = TRUE]
  /\ UNCHANGED <<program, proc, FORDEFI_API_USER_TOKEN, FORDEFI_PUBLIC_KEY,
                 HYPERNATIVE_PUBLIC_KEY, req, pc, source, log, vkey, vmsg,
                 vres, calls, outcome, signingTriggered, resp>>

NextCodec == ConvertSignature

SpecCodec == InitCodec /\ [][NextCodec]_vars

\* ------------------------------------------------------------------------
\* Vocabulary of the codec properties
\* ------------------------------------------------------------------------
\* content is the DER encoding of an integer r with 0 < r < n: not negative,
\* no leading zero byte but the one that keeps the sign bit clear
ValidInteger(content) ==
  /\ content[1] < 128
  /\ ~(content[1] = 0 /\ Len(content) > 1 /\ content[2] < 128)
  /\ Strip(content) # <<>>
  /\ Less(Strip(content), CurveOrder)

ValidSignature(c) ==
  c.shape = "ok" /\ ValidInteger(c.r) /\ ValidInteger(c.s)

\* content without its leading zero byte, if it has one
StripLeadingZero(content) ==
  IF content[1] = 0 THEN Tail(content) ELSE content

Zeros(n) == [i \in 1..n |-> 0]

\* ------------------------------------------------------------------------
\* C16: for a valid DER signature (r, s), derToP1363 returns exactly 64
\* bytes: r then s, each big-endian in 32 bytes, the DER leading zero byte
\* stripped and short values left-padded with zero bytes, so that reading
\* the two halves back as integers gives r and s.
\* ------------------------------------------------------------------------
C16_CompactRoundTrip ==
  codec.applied /\ ValidSignature(codec) =>
    LET rv == StripLeadingZero(codec.r)
        sv == StripLeadingZero(codec.s)
        out == codec.out.bytes
    IN /\ codec.out.ok
       /\ Len(out) = 64
       /\ SubSeq(out, 1, 32) = Zeros(32 - Len(rv)) \o rv
       /\ SubSeq(out, 33, 64) = Zeros(32 - Len(sv)) \o sv
       /\ Strip(SubSeq(out, 1, 32)) = Strip(codec.r)
       /\ Strip(SubSeq(out, 33, 64)) = Strip(codec.s)

\* a signature with a 33-byte r (leading zero) and a 1-byte s was converted
C16_Witness ==
  /\ codec.applied
  /\ ValidSignature(codec)
  /\ Len(codec.r) = 33
  /\ Len(codec.s) = 1
  /\ codec.out.ok

\* ------------------------------------------------------------------------
\* C17: a DER signature in which r or s is longer than 32 bytes after the
\* leading zero byte is stripped is rejected: derToP1363 throws and returns
\* no compact signature.
\* ------------------------------------------------------------------------
Oversize(content) == Len(StripLeadingZero(content)) > 32

C17_OversizeRejected ==
  (codec.applied /\ codec.shape = "ok"
     /\ (Oversize(codec.r) \/ Oversize(codec.s)))
    => codec.out = [ok |-> FALSE, bytes |-> <<>>]

\* a well-formed signature whose r is 33 bytes after its leading zero, with
\* a valid s, was rejected
C17_Witness ==
  /\ codec.applied
  /\ codec.shape = "ok"
  /\ codec.r = Content(34, 0, 128, 171)
  /\ ValidInteger(codec.s)
  /\ ~codec.out.ok

\* ------------------------------------------------------------------------
\* Specification: requests in flight together.  Each handler is an async
\* function; at every await the event loop may run a step of any request.
\* ------------------------------------------------------------------------
HypernativeBody ==
  Body("object", SigValue("der", "hypernative", "data"), "jsonString")

ForgedBody ==
  Body("object", SigValue("der", "attacker", "data"), "jsonString")

\* the requests sent concurrently: a signed Hypernative event through the
\* router and on its own endpoint, with and without transaction id, a forged
\* one, a signed Fordefi event, and a request without signature
ConcInputs ==
  { [endpoint |-> "/", txid |-> "tx123",
     xsig |-> SigValue("der", "fordefi", "rawBody"), body |-> HypernativeBody],
    [endpoint |-> "/hypernative", txid |-> "tx123",
     xsig |-> SigValue("absent", "none", "none"), body |-> HypernativeBody],
    [endpoint |-> "/", txid |-> "tx123",
     xsig |-> SigValue("absent", "none", "none"), body |-> ForgedBody],
    [endpoint |-> "/hypernative", txid |-> "absent",
     xsig |-> SigValue("absent", "none", "none"), body |-> HypernativeBody],
    [endpoint |-> "/", txid |-> "absent",
     xsig |-> SigValue("der", "fordefi", "rawBody"),
     body |-> Body("object", SigValue("absent", "none", "none"), "absent")],
    [endpoint |-> "/", txid |-> "absent",
     xsig |-> SigValue("absent", "none", "none"),
     body |-> Body("jsonNonObject", SigValue("absent", "none", "none"),
                   "absent")] }

ReceiveConcurrent(r) == ArriveFrom(r, ConcInputs)

NextConc ==
  \/ StartupApp
  \/ StartupSimple
  \/ \E r \in Requests : ReceiveConcurrent(r)
  \/ \E r \in Requests : PostRoot(r)
  \/ \E r \in Requests : PostHypernative(r)
  \/ \E r \in Requests : SimplePostRoot(r)
  \/ \E r \in Requests : handleHypernativeWebhook(r)
  \/ \E r \in Requests : verifySignature(r)
  \/ \E r \in Requests : verifyHypernativeSignature(r)
  \/ \E r \in Requests : PostRootAfterVerify(r)
  \/ \E r \in Requests : SimpleAfterVerify(r)
  \/ \E r \in Requests : HypernativeAfterVerify(r)
  \/ \E r \in Requests : triggerTransactionSigning(r)
  \/ \E r \in Requests : HypernativeRespond(r)

SpecConc == Init /\ [][NextConc]_vars

\* ------------------------------------------------------------------------
\* C18: request handling writes no shared state: a step of one request
\* changes nothing of another request and nothing of the configuration; two
\* requests with the same content, verification result and downstream
\* outcome have the same response and downstream calls; and while a request
\* is suspended in its downstream call every other request can take its
\* next step and a new request can be received.
\* ------------------------------------------------------------------------
\* everything the handler of r reads or writes for r
Own(r) ==
  <<req[r], pc[r], source[r], log[r], vkey[r], vmsg[r], vres[r], calls[r],
    outcome[r], signingTriggered[r], resp[r]>>

Configuration ==
  <<program, FORDEFI_API_USER_TOKEN, FORDEFI_PUBLIC_KEY,
    HYPERNATIVE_PUBLIC_KEY>>

\* a step that changes r changes no other request
Frame ==
  \A r \in Requests : \A o \in Requests \ {r} :
    Own(r)' # Own(r) => Own(o)' = Own(o)

\* once the server listens, the configuration is only read
ReadOnlyConfiguration ==
  proc = "listening" => proc' = "listening" /\ Configuration' = Configuration

SameAsAlone ==
  \A r \in Requests : \A o \in Requests :
    /\ req[r] = req[o]
    /\ pc[r] = "done" /\ pc[o] = "done"
    /\ vres[r] = vres[o]
    /\ outcome[r] = outcome[o]
    => /\ resp[r] = resp[o]
       /\ calls[r] = calls[o]
       /\ log[r] = log[o]

NotBlocked ==
  \A r \in Requests : \A o \in Requests \ {r} :
    pc[r] = "triggerTransactionSigning" =>
      /\ pc[o] \notin {"idle", "done", "triggerTransactionSigning"} =>
           ENABLED ServerStep(o)
      /\ pc[o] = "idle" => ENABLED ReceiveConcurrent(o)

C18_RequestsIndependent ==
  /\ [](SameAsAlone /\ NotBlocked)
  /\ [][Frame /\ ReadOnlyConfiguration]_vars

\* while one request waits for its downstream call, the downstream call of
\* another request has returned
C18_Witness ==
  \E r \in Requests : \E o \in Requests \ {r} :
    /\ pc[r] = "triggerTransactionSigning"
    /\ pc[o] = "respondTrigger"

\* ------------------------------------------------------------------------
\* C19: every handled request is answered exactly once: no request ever has
\* two responses, a handler that has finished has sent one, and a handler
\* that has not finished and is not waiting for its downstream call can
\* take its next step; each response comes from one res.status(..).json(..).
\* ------------------------------------------------------------------------
InHandler(r) == pc[r] \notin {"idle", "done"}

C19_ExactlyOneResponse ==
  \A r \in Requests :
    /\ Len(resp[r]) <= 1
    /\ pc[r] = "done" <=> Len(resp[r]) = 1
    /\ Count(r, "respond") = Len(resp[r])
    /\ InHandler(r) /\ pc[r] # "triggerTransactionSigning" =>
         ENABLED ServerStep(r)

\* the delegation from POST / to handleHypernativeWebhook ended in the
\* catch block, with the one 500 response
C19_Witness ==
  \E r \in Requests :
    /\ req[r].endpoint = "/"
    /\ OnSourceB(r)
    /\ Threw(r)
    /\ pc[r] = "done"
    /\ Answered(r, 500)

\* ------------------------------------------------------------------------
\* C20: a 200 response (success or partial_success) is sent only for a
\* request whose signature verification completed with result true, and
\* every response status is one of 200, 400, 401, 500.
\* ------------------------------------------------------------------------
ResponseStatuses == {200, 400, 401, 500}

C20_OkOnlyAfterVerified ==
  \A r \in Requests : \A i \in DOMAIN resp[r] :
    /\ resp[r][i].code \in ResponseStatuses
    /\ resp[r][i].code = 200 =>
         /\ resp[r][i].status \in {"success", "partial_success"}
         /\ vres[r] = "true"
         /\ Has(r, "verifyTrue")
         /\ Precedes(r, "verifyTrue", "respond")

\* a verified Hypernative event whose downstream call failed was answered
\* 200 partial_success
C20_Witness ==
  \E r \in Requests :
    /\ Answered(r, 200)
    /\ resp[r][1].status = "partial_success"
    /\ vres[r] = "true"

\* ------------------------------------------------------------------------
\* C21: on the SourceB path, after verification returned true, a data
\* string that is not JSON does not abort the request: the parse error is
\* swallowed, the trigger is called when the transaction id is present,
\* and the response is 200.
\* ------------------------------------------------------------------------
\* the handler of r went past the nested parse of a data string that is
\* not JSON
PastBadNestedData(r) ==
  /\ OnSourceB(r)
  /\ vres[r] = "true"
  /\ req[r].body.kind = "object"
  /\ req[r].body.data = "textString"
  /\ pc[r] \in {"triggerTransactionSigning", "respondTrigger", "done"}

C21_NestedParseErrorSwallowed ==
  \A r \in Requests :
    PastBadNestedData(r) =>
      /\ Has(r, "parseDataError")
      /\ Precedes(r, "parseDataError", "trigger")
      /\ Precedes(r, "parseDataError", "respond")
      /\ TruthyTx(req[r].txid) => calls[r] = 1 /\ Has(r, "trigger")
      /\ pc[r] = "done" => Answered(r, 200)

\* a verified event with a transaction id and a data string that is not
\* JSON was answered 200 after its one downstream call
C21_Witness ==
  \E r \in Requests :
    /\ PastBadNestedData(r)
    /\ TruthyTx(req[r].txid)
    /\ calls[r] = 1
    /\ outcome[r] # NoOutcome
    /\ Answered(r, 200)

====
